---- MODULE Spec2Model ----
(***************************************************************************)
(* Station availability synchronisation of the EV charging backend:        *)
(* the station store (current_stations), the historical ledger, the        *)
(* cache-aside nearby search, the batch sweep, the bulk speed sweep and    *)
(* the cache eviction job.                                                 *)
(*                                                                         *)
(* A station document and a Station object are both modelled as a record;  *)
(* field validation done by the pydantic library is outside the model.     *)
(* Locations are points on a line, in metres from a reference point.       *)
(* Time is counted in hours.                                               *)
(***************************************************************************)
EXTENDS Naturals, Integers, Sequences, FiniteSets, TLC

\* ------------------------------------------------------------------ bounds
MaxOps == 2
MaxTicks == 1
MaxCalls == 3
MaxIds == 21
MaxTriggers == 3
MaxSends == 1

StationIds == {1, 2}
Radii == {1000, 2000}
QueryPoints == {0, 500, 1500}
AreaStatuses == {"AVAILABLE", "OCCUPIED", "UNKNOWN"}
Limits == {1, 150}
Users == {"u1", "u2"}
UpdateStatuses == {"AVAILABLE", "OCCUPIED", "OUT_OF_ORDER"}
Producers == {"p1", "p2"}

\* ------------------------------------------------------- program constants
MIN_STATIONS_THRESHOLD == 5
CacheRetentionHours == 24
TOMTOM_AVAILABILITY_CHUNK_SIZE == 20
chunk_size == 10
max_retries == 3
task_default_retry_delay == 300
BulkStatuses == {"AVAILABLE", "BUSY", "OUT_OF_ORDER"}

NoDoc == [absent |-> TRUE]
None == "None"
SmtpServers == {None, "mailhog"}

VARIABLES
    store,          \* current_stations: tomtom_id -> document or NoDoc
    historical,     \* historical ledger, in insertion order
    broadcasts,     \* 'status_update' messages emitted, in order
    emails,         \* status change e-mails handed to the mail service
    events,         \* ChangeEvent collection (station_events)
    now,            \* datetime.utcnow(), in hours
    ops,            \* number of search, batch and speed runs started
    ticks,          \* number of times the clock advanced
    last,           \* what the last completed run did
    speed_pc,       \* position of the running speed sweep
    speed_stations, \* stations loaded by the running speed sweep
    speed_bulk,     \* bulk status map fetched by the running speed sweep
    collection,     \* current_stations as the list of its documents
    upserts,        \* the upserts of one station under way, per producer
    fetch,          \* one bulk availability fetch of the adapter
    tasks,          \* the sweep tasks the scheduler has sent to the workers
    smtp_server,    \* settings.smtp_server
    notify          \* the notifications of one speed sweep run under way

vars == <<store, historical, broadcasts, emails, events, now, ops, ticks, last,
          speed_pc, speed_stations, speed_bulk, collection, upserts, fetch, tasks,
          smtp_server, notify>>

\* the variables of the runs that are taken as one step each
run_vars == <<store, historical, broadcasts, emails, events, now, ops, ticks, last,
              speed_pc, speed_stations, speed_bulk>>

\* the variables of the upserts that are taken lookup by lookup
upsert_vars == <<collection, upserts>>

\* the variables the runs leave alone
aside_vars == <<collection, upserts, fetch, tasks, smtp_server, notify>>

\* --------------------------------------------------------------- geometry
\* The provider's catalogue: station i stands i kilometres from the
\* reference point.
Position(i) == 1000 * i

Distance(a, b) == IF a >= b THEN a - b ELSE b - a

\* str.upper() on the status filters the model uses
Upper(s) ==
    CASE s = "available" -> "AVAILABLE"
      [] s = "occupied" -> "OCCUPIED"
      [] s = "busy" -> "BUSY"
      [] OTHER -> s

EmptyMap == [i \in {} |-> "AVAILABLE"]

\* --------------------------------------------------------- station store
\* a $geoNear stage without maxDistance
GeoNearMatches_unbounded(st, point, radius_meters, status_filter) ==
    {i \in DOMAIN st :
        /\ st[i] # NoDoc
        /\ (status_filter # None => st[i].status = Upper(status_filter))}

\* $geoNear stage: the documents that pass the query and lie within
\* maxDistance of the point
GeoNearMatches(st, point, radius_meters, status_filter) ==
    {i \in DOMAIN st :
        /\ st[i] # NoDoc
        /\ Distance(st[i].location, point) <= radius_meters
        /\ (status_filter # None => st[i].status = Upper(status_filter))}

\* a stage that returns its matches in index order, farthest id first
RECURSIVE IndexOrder(_, _, _)
IndexOrder(st, point, ids) ==
    IF ids = {} THEN <<>>
    ELSE LET m == CHOOSE i \in ids : \A j \in ids : j <= i
         IN <<m>> \o IndexOrder(st, point, ids \ {m})

\* $geoNear returns its matches nearest first (equal distances by id)
RECURSIVE NearestFirst(_, _, _)
NearestFirst(st, point, ids) ==
    IF ids = {} THEN <<>>
    ELSE LET m == CHOOSE i \in ids : \A j \in ids :
                    \/ Distance(st[i].location, point) < Distance(st[j].location, point)
                    \/ /\ Distance(st[i].location, point) = Distance(st[j].location, point)
                       /\ i <= j
         IN <<m>> \o NearestFirst(st, point, ids \ {m})

Take(s, n) == IF Len(s) <= n THEN s ELSE SubSeq(s, 1, n)

RemoveAt(s, k) == SubSeq(s, 1, k - 1) \o SubSeq(s, k + 1, Len(s))

\* $sort by distance_meters ascending, equal distances in input order
RECURSIVE SortByDistance(_, _, _)
SortByDistance(st, point, s) ==
    IF s = <<>> THEN <<>>
    ELSE LET k == CHOOSE a \in 1..Len(s) : \A b \in 1..Len(s) :
                    \/ Distance(st[s[a]].location, point) < Distance(st[s[b]].location, point)
                    \/ /\ Distance(st[s[a]].location, point) = Distance(st[s[b]].location, point)
                       /\ a <= b
         IN <<s[k]>> \o SortByDistance(st, point, RemoveAt(s, k))

\* StationRepository.find_nearby_stations: $geoNear, $limit, $sort by
\* distance; each element is the document with its distance attached
find_nearby_stations(st, point, radius_meters, status_filter, limit) ==
    LET near == NearestFirst(st, point,
                    GeoNearMatches(st, point, radius_meters, status_filter))
        limited == SortByDistance(st, point, Take(near, limit))
    IN [k \in 1..Len(limited) |->
            [tomtom_id |-> limited[k],
             status |-> st[limited[k]].status,
             distance |-> Distance(st[limited[k]].location, point)]]

find_by_tomtom_id(st, tomtom_id) == st[tomtom_id]

\* an insert that is lost
create_station_lost(st, tomtom_id, status, t) == st

\* StationRepository.create_station: insert_one of the station document.
\* The document carries no availability_status_changes_count; a reader gets
\* the Station model's default 0, which is what the field holds here.
create_station(st, tomtom_id, status, t) ==
    [st EXCEPT ![tomtom_id] =
        [status |-> status,
         location |-> Position(tomtom_id),
         connectors |-> <<"AVAILABLE">>,
         last_updated |-> t,
         data_source |-> "TOMTOM",
         availability_status_changes_count |-> 0]]

\* an update that counts every call as a change
update_station_status_counting(st, tomtom_id, new_status, t) ==
    IF st[tomtom_id] = NoDoc THEN st
    ELSE [st EXCEPT ![tomtom_id].status = new_status,
                    ![tomtom_id].last_updated = t,
                    ![tomtom_id].availability_status_changes_count = @ + 1]

\* StationRepository.update_station_status: $set of status, last_updated and
\* the additional fields on the document with this tomtom_id, when there is
\* one
update_station_status(st, tomtom_id, new_status, t) ==
    IF st[tomtom_id] = NoDoc THEN st
    ELSE [st EXCEPT ![tomtom_id].status = new_status,
                    ![tomtom_id].last_updated = t]

\* an update that sets the additional fields and leaves the status alone
update_with_connectors_only(st, tomtom_id, new_status, t) ==
    IF st[tomtom_id] = NoDoc THEN st
    ELSE [st EXCEPT ![tomtom_id].connectors = <<"AVAILABLE">>,
                    ![tomtom_id].last_updated = t,
                    ![tomtom_id].data_source = "TOMTOM"]

\* an update that also counts itself as a change of the station
update_with_connectors_counting(st, tomtom_id, new_status, t) ==
    IF st[tomtom_id] = NoDoc THEN st
    ELSE [st EXCEPT ![tomtom_id].status = new_status,
                    ![tomtom_id].last_updated = t,
                    ![tomtom_id].connectors = <<"AVAILABLE">>,
                    ![tomtom_id].data_source = "TOMTOM",
                    ![tomtom_id].availability_status_changes_count = @ + 1]

\* the additional fields the cache refill and the batch sweep pass
update_with_connectors(st, tomtom_id, new_status, t) ==
    LET st1 == update_station_status(st, tomtom_id, new_status, t)
    IN IF st1[tomtom_id] = NoDoc THEN st1
       ELSE [st1 EXCEPT ![tomtom_id].connectors = <<"AVAILABLE">>,
                        ![tomtom_id].data_source = "TOMTOM"]

\* a delete_many without the last_updated condition
cleanup_old_cache_any_age(st, t, hours) ==
    [i \in StationIds |->
        IF st[i] # NoDoc /\ st[i].data_source = "TOMTOM" THEN NoDoc ELSE st[i]]

\* StationRepository.cleanup_old_cache
cleanup_old_cache(st, t, hours) ==
    [i \in StationIds |->
        IF /\ st[i] # NoDoc
           /\ st[i].data_source = "TOMTOM"
           /\ st[i].last_updated + hours < t
        THEN NoDoc ELSE st[i]]

\* ------------------------------------------------------ external adapter
\* TomTomService.get_stations_in_area: the provider's stations within the
\* radius, each with the status _enrich_with_availability gave it.  A
\* provider failure is caught in search_charging_stations and yields [].
InArea(point, radius) ==
    {i \in StationIds : Distance(Position(i), point) <= radius}

\* what the provider answers: the stations of the area with their status, or
\* an error
AreaResponses(point, radius) ==
    {[ok |-> TRUE, stations |-> m] : m \in [InArea(point, radius) -> AreaStatuses]}

ProviderDown == [ok |-> FALSE, stations |-> EmptyMap]

\* TomTomService._search_basic_stations: the parsed stations, or
\* TomTomAPIException when the request fails
_search_basic_stations(provider) ==
    IF provider.ok
    THEN [raised |-> "none", stations |-> provider.stations]
    ELSE [raised |-> "TomTomAPIException", stations |-> EmptyMap]

\* a search that lets the transport error of a failed request through
search_charging_stations_unguarded(provider) ==
    IF provider.ok
    THEN [raised |-> "none", stations |-> provider.stations]
    ELSE [raised |-> "HTTPStatusError", stations |-> EmptyMap]

\* TomTomService.search_charging_stations: any exception is logged and the
\* empty list returned
search_charging_stations(provider) ==
    LET found == _search_basic_stations(provider)
    IN IF found.raised # "none"
       THEN [raised |-> "none", stations |-> EmptyMap]
       ELSE found

\* TomTomService.get_stations_in_area
get_stations_in_area(provider) == search_charging_stations(provider)

\* ---------------------------------------------------------------- records
NoRun ==
    [op |-> "none", pre |-> [i \in StationIds |-> NoDoc],
     point |-> 0, radius |-> 0, status_filter |-> None, limit |-> 0,
     fetched |-> EmptyMap, adapter_failed |-> FALSE, outcome |-> "success",
     local |-> <<>>, result |-> <<>>, data_source |-> "",
     summary |-> [new_stations |-> 0, updated_stations |-> 0, historical_records |-> 0],
     again |-> FALSE,
     stations |-> [i \in StationIds |-> NoDoc], bulk |-> EmptyMap,
     changed |-> {}, snapshots |-> <<>>,
     tomtom_id |-> 0, new_status |-> "", repeat |-> 0, count0 |-> 0,
     time |-> 0,
     db_error |-> FALSE, db_errors |-> {}, adapter_called |-> FALSE,
    adapter_calls |-> 0, find_nearby_calls |-> 0,
     returned |-> [raised |-> FALSE, value |-> None]]

\* no speed sweep run whose notifications are followed one by one
NoNotify == [pc |-> "none", stations |-> EmptyMap, sent |-> EmptyMap]

\* no availability fetch under way
NoFetch ==
    [pc |-> "none", function |-> "", station_ids |-> <<>>, next |-> 1,
     calls |-> <<>>, availability_map |-> EmptyMap, all_availability_data |-> <<>>]

\* The collection outlives the processes: at start it holds the stations
\* earlier cache refills created.
InitStores ==
    {[i \in StationIds |-> IF i \in present
                           THEN [status |-> "AVAILABLE",
                                 location |-> Position(i),
                                 connectors |-> <<"AVAILABLE">>,
                                 last_updated |-> 0,
                                 data_source |-> "TOMTOM",
                                 availability_status_changes_count |-> 0]
                           ELSE NoDoc] : present \in SUBSET StationIds}

Init ==
    /\ store \in InitStores
    /\ historical = <<>>
    /\ broadcasts = <<>>
    /\ emails = <<>>
    /\ events = <<>>
    /\ now = 0
    /\ ops = 0
    /\ ticks = 0
    /\ last = NoRun
    /\ speed_pc = "idle"
    /\ speed_stations = [i \in StationIds |-> NoDoc]
    /\ speed_bulk = EmptyMap
    /\ collection = <<>>
    /\ upserts = <<>>
    /\ fetch = NoFetch
    /\ tasks = <<>>
    /\ smtp_server \in SmtpServers
    /\ notify = NoNotify

\* ------------------------------------------------------ cache-aside search
\* cache_tomtom_stations: insert the stations the store does not have,
\* update the others
RECURSIVE cache_tomtom_stations(_, _, _, _)
cache_tomtom_stations(st, fetched, ids, t) ==
    IF ids = {} THEN st
    ELSE LET i == CHOOSE x \in ids : \A y \in ids : x <= y
             st1 == IF find_by_tomtom_id(st, i) = NoDoc
                    THEN create_station(st, i, fetched[i], t)
                    ELSE update_with_connectors(st, i, fetched[i], t)
         IN cache_tomtom_stations(st1, fetched, ids \ {i}, t)

\* a test that asks the adapter also when the local result is just enough
insufficient_or_equal(local_stations) == Len(local_stations) <= MIN_STATIONS_THRESHOLD

\* the test of step 2: len(local_stations) < MIN_STATIONS_THRESHOLD
insufficient(local_stations) == Len(local_stations) < MIN_STATIONS_THRESHOLD

\* a response that presents a re-queried result as enriched only when it
\* has reached the threshold
search_response_thresholded(local_stations, updated_stations, refill) ==
    IF refill /\ Len(updated_stations) >= MIN_STATIONS_THRESHOLD
    THEN [stations |-> updated_stations, data_source |-> "local_plus_tomtom"]
    ELSE [stations |-> local_stations, data_source |-> "local_database"]

\* the two returns of the handler: the re-queried result after a refill
\* (lines 114-125), the first result otherwise (lines 134-144)
search_response(local_stations, updated_stations, refill) ==
    IF refill
    THEN [stations |-> updated_stations, data_source |-> "local_plus_tomtom"]
    ELSE [stations |-> local_stations, data_source |-> "local_database"]

\* search_nearby_stations_enhanced: the response is the local result, the
\* result after a refill, or HTTP 500 when something other than
\* TomTomAPIException is raised
Search(point, radius, status_filter, limit, provider) ==
    LET local_stations == find_nearby_stations(store, point, radius, status_filter, limit)
        call_adapter == insufficient(local_stations)
        answer == IF call_adapter THEN get_stations_in_area(provider)
                  ELSE [raised |-> "none", stations |-> EmptyMap]
        tomtom_stations == answer.stations
        refill == answer.raised = "none" /\ DOMAIN tomtom_stations # {}
        st1 == IF refill
               THEN cache_tomtom_stations(store, tomtom_stations, DOMAIN tomtom_stations, now)
               ELSE store
        updated_stations == find_nearby_stations(st1, point, radius, status_filter, limit)
        error == answer.raised \notin {"none", "TomTomAPIException"}
        response == search_response(local_stations, updated_stations, refill)
    IN /\ ops < MaxOps
       /\ ops' = ops + 1
       /\ store' = st1
       /\ last' = [NoRun EXCEPT
                     !.op = "search", !.pre = store,
                     !.point = point, !.radius = radius,
                     !.status_filter = status_filter, !.limit = limit,
                     !.fetched = tomtom_stations,
                     !.adapter_failed = call_adapter /\ ~provider.ok,
                     !.adapter_called = call_adapter,
                     !.outcome = IF error THEN "HTTP 500" ELSE "HTTP 200",
                     !.local = local_stations,
                     !.adapter_calls = IF call_adapter THEN 1 ELSE 0,
                     !.find_nearby_calls = IF refill THEN 2 ELSE 1,
                     !.result = IF error THEN <<>> ELSE response.stations,
                     !.data_source = IF error THEN "" ELSE response.data_source,
                     !.time = now]
       /\ UNCHANGED <<historical, broadcasts, emails, events, now, ticks,
                      speed_pc, speed_stations, speed_bulk>>

SearchFilters == {None, "available"}

SearchOk ==
    \E radius \in Radii, status_filter \in SearchFilters :
        \E provider \in AreaResponses(0, radius) :
            Search(0, radius, status_filter, 150, provider)

SearchAdapterDown ==
    \E radius \in Radii, status_filter \in SearchFilters :
        Search(0, radius, status_filter, 150, ProviderDown)

\* -------------------------------------------------------------- batch sweep
\* map_status_for_schema
map_status_for_schema(status) ==
    CASE status = "OUT_OF_ORDER" -> "OFFLINE"
      [] status \in {"BUSY", "OCCUPIED"} -> "OCCUPIED"
      [] status = "AVAILABLE" -> "AVAILABLE"
      [] status = "MAINTENANCE" -> "MAINTENANCE"
      [] OTHER -> "OFFLINE"

\* a ledger write that is lost
save_historical_data_lost(hist, station_id, status, t) == hist

\* HistoricalRepository.save_historical_data: insert_one into the ledger
save_historical_data(hist, station_id, status, t) ==
    Append(hist, [station_id |-> station_id, timestamp |-> t, status |-> status])

\* a test that compares the stored status with the ledger's status name
status_changed_mapped(existing_station, status) ==
    existing_station.status # map_status_for_schema(status)

\* the test that decides whether an existing station is written
status_changed(existing_station, status) == existing_station.status # status

\* a loop that drops the stored stations the fetch does not hold
batch_loop_pruning(acc, fetched, ids, t) ==
    [acc EXCEPT !.st = [i \in DOMAIN acc.st |->
                           IF i \in DOMAIN fetched THEN acc.st[i] ELSE NoDoc]]

\* the loop of _async_batch_update over the fetched stations. The writes of
\* the stations in acc.db_errors hit an error of the database: the
\* repository catches it and returns False, which the loop does not read
RECURSIVE batch_loop(_, _, _, _)
batch_loop(acc, fetched, ids, t) ==
    IF ids = {} THEN acc
    ELSE LET i == CHOOSE x \in ids : \A y \in ids : x <= y
             existing_station == find_by_tomtom_id(acc.st, i)
             snapshot_status == map_status_for_schema(fetched[i])
             acc1 ==
                IF existing_station # NoDoc
                THEN IF status_changed(existing_station, fetched[i])
                     THEN [acc EXCEPT
                             !.st = IF i \in acc.db_errors THEN acc.st
                                    ELSE update_with_connectors(acc.st, i, fetched[i], t),
                             !.updated_count = @ + 1,
                             !.hist = save_historical_data(@, i, snapshot_status, t),
                             !.historical_saved = @ + 1]
                     ELSE acc
                ELSE [acc EXCEPT
                        !.st = IF i \in acc.db_errors THEN acc.st
                               ELSE create_station(acc.st, i, fetched[i], t),
                        !.inserted_count = @ + 1,
                        !.hist = save_historical_data(@, i, snapshot_status, t),
                        !.historical_saved = @ + 1]
         IN batch_loop(acc1, fetched, ids \ {i}, t)

\* _async_batch_update: an exception of the adapter call fails the run, which
\* the task then hands to the scheduler for a retry
BatchWith(point, radius, provider, db_errors) ==
    LET answer == get_stations_in_area(provider)
        stations == answer.stations
        raised == answer.raised # "none"
        done == IF raised
                THEN [st |-> store, hist |-> <<>>, inserted_count |-> 0,
                      updated_count |-> 0, historical_saved |-> 0,
                      db_errors |-> db_errors]
                ELSE batch_loop([st |-> store, hist |-> <<>>, inserted_count |-> 0,
                                 updated_count |-> 0, historical_saved |-> 0,
                                 db_errors |-> db_errors],
                                stations, DOMAIN stations, now)
    IN /\ ops < MaxOps
       /\ ops' = ops + 1
       /\ store' = done.st
       /\ historical' = historical \o done.hist
       /\ last' = [NoRun EXCEPT
                     !.op = "batch", !.pre = store,
                     !.point = point, !.radius = radius,
                     !.fetched = stations, !.adapter_failed = ~provider.ok,
                     !.outcome = IF raised THEN "retry" ELSE "success",
                     !.summary = [new_stations |-> done.inserted_count,
                                  updated_stations |-> done.updated_count,
                                  historical_records |-> done.historical_saved],
                     !.again = /\ last.op = "batch"
                               /\ last.point = point
                               /\ last.radius = radius
                               /\ last.fetched = stations,
                     !.snapshots = done.hist,
                     !.time = now,
                     !.db_errors = db_errors]
       /\ UNCHANGED <<broadcasts, emails, events, now, ticks, speed_pc, speed_stations, speed_bulk>>

\* a run whose writes all reach the database
Batch(point, radius, provider) == BatchWith(point, radius, provider, {})

BatchOk ==
    \E radius \in Radii : \E provider \in AreaResponses(0, radius) :
        Batch(0, radius, provider)

BatchAdapterDown ==
    \E radius \in Radii : Batch(0, radius, ProviderDown)

\* a run in which the database fails the writes of some fetched stations
BatchWriteFails ==
    \E radius \in Radii : \E provider \in AreaResponses(0, radius) :
        \E db_errors \in SUBSET (DOMAIN provider.stations) \ {{}} :
            BatchWith(0, radius, provider, db_errors)

\* ------------------------------------------------------------- speed sweep
\* StationRepository._convert_to_station_object: the fields the Station
\* object is built from
_convert_to_station_object(tomtom_id, station_data) ==
    [tomtom_id |-> tomtom_id,
     location |-> station_data.location,
     connectors |-> station_data.connectors,
     status |-> station_data.status,
     data_source |-> station_data.data_source,
     last_updated |-> station_data.last_updated]

\* StationRepository.get_all_stations
get_all_stations(st) ==
    [i \in StationIds |->
        IF st[i] = NoDoc THEN NoDoc ELSE _convert_to_station_object(i, st[i])]

Loaded(stations) == {i \in StationIds : stations[i] # NoDoc}

\* TomTomService.get_bulk_status_by_area: one status, drawn at random, for
\* every station the store holds when it is called
BulkResponses(st) == [Loaded(get_all_stations(st)) -> BulkStatuses]

\* the favourites of the premium users (data of the user collection)
favorite_stations == [u \in Users |-> IF u = "u1" THEN {1} ELSE StationIds]

\* UserRepository.find_premium_users_by_favorite_station: called by
\* process_station_status, not defined by the repository class; taken to
\* return the premium users who have the station among their favourites
find_premium_users_by_favorite_station(tomtom_id) ==
    {u \in Users : tomtom_id \in favorite_stations[u]}

\* StationRepository.add_historical_availability: called by
\* process_station_status, not defined by the repository class; taken to
\* append one snapshot of the new status to the ledger
add_historical_availability(hist, tomtom_id, new_status, t) ==
    Append(hist, [station_id |-> tomtom_id, timestamp |-> t, status |-> new_status])

\* a lookup that falls back to a fixed status instead of the loaded one
bulk_status_get_offline(bulk_status, tomtom_id, old_status) ==
    IF tomtom_id \in DOMAIN bulk_status THEN bulk_status[tomtom_id] ELSE "OFFLINE"

\* the status process_station_status compares the loaded one with
bulk_status_get(bulk_status, tomtom_id, old_status) ==
    IF tomtom_id \in DOMAIN bulk_status THEN bulk_status[tomtom_id] ELSE old_status

\* the e-mails of one changed station, one per interested user
RECURSIVE station_emails(_, _, _, _)
station_emails(users, tomtom_id, old_status, new_status) ==
    IF users = {} THEN <<>>
    ELSE LET u == CHOOSE x \in users : TRUE
         IN <<[user |-> u, station_id |-> tomtom_id,
               old_status |-> old_status, new_status |-> new_status]>>
            \o station_emails(users \ {u}, tomtom_id, old_status, new_status)

\* a step that writes the returned status without comparing it
process_station_status_unguarded(acc, station, bulk_status, t) ==
    LET tomtom_id == station.tomtom_id
        old_status == station.status
        new_status == bulk_status_get(bulk_status, tomtom_id, old_status)
        written == [acc EXCEPT
                      !.st = update_station_status(acc.st, tomtom_id, new_status, t)]
    IN IF old_status # new_status
       THEN [written EXCEPT
               !.hist = add_historical_availability(@, tomtom_id, new_status, t),
               !.mails = @ \o station_emails(
                           find_premium_users_by_favorite_station(tomtom_id),
                           tomtom_id, old_status, new_status),
               !.changed_stations = @ \cup
                   {[station_id |-> tomtom_id, old_status |-> old_status,
                     new_status |-> new_status]}]
       ELSE written

\* process_station_status: one loaded station against the bulk result
process_station_status(acc, station, bulk_status, t) ==
    LET tomtom_id == station.tomtom_id
        old_status == station.status
        new_status == bulk_status_get(bulk_status, tomtom_id, old_status)
    IN IF old_status # new_status
       THEN [acc EXCEPT
               !.st = update_station_status(acc.st, tomtom_id, new_status, t),
               !.hist = add_historical_availability(@, tomtom_id, new_status, t),
               !.mails = @ \o station_emails(
                           find_premium_users_by_favorite_station(tomtom_id),
                           tomtom_id, old_status, new_status),
               !.changed_stations = @ \cup
                   {[station_id |-> tomtom_id, old_status |-> old_status,
                     new_status |-> new_status]}]
       ELSE acc

\* asyncio.gather over the loaded stations
RECURSIVE process_stations(_, _, _, _, _)
process_stations(acc, stations, bulk_status, ids, t) ==
    IF ids = {} THEN acc
    ELSE LET i == CHOOSE x \in ids : \A y \in ids : x <= y
         IN process_stations(process_station_status(acc, stations[i], bulk_status, t),
                             stations, bulk_status, ids \ {i}, t)

\* notification_service.send_email: without an SMTP server it returns at
\* once; with one it reads settings.smtp_from_email, which Settings does
\* not define, before the try that guards the sending
send_email(smtp) == IF smtp = None THEN "skipped" ELSE "AttributeError"

\* sio.emit('status_update', ...) when some station changed
emit_status_update(sent, changed_stations) ==
    IF changed_stations # {} THEN Append(sent, changed_stations) ELSE sent

\* _async_bulk_poll_and_broadcast, up to the end of get_all_stations
SpeedLoadStations ==
    LET stations == get_all_stations(store)
    IN /\ speed_pc = "idle"
       /\ IF Loaded(stations) = {}
          THEN /\ last' = [NoRun EXCEPT !.op = "speed", !.pre = store,
                                        !.time = now]
               /\ UNCHANGED <<speed_pc, speed_stations>>
          ELSE /\ speed_pc' = "loaded"
               /\ speed_stations' = stations
               /\ UNCHANGED last
       /\ UNCHANGED <<store, historical, broadcasts, emails, events, now, ticks, speed_bulk>>

\* a run the scheduler starts
SpeedLoad ==
    /\ ops < MaxOps
    /\ ops' = ops + 1
    /\ SpeedLoadStations

\* ... the call of get_bulk_status_by_area
SpeedFetch ==
    /\ speed_pc = "loaded"
    /\ \E bulk_status \in BulkResponses(store) : speed_bulk' = bulk_status
    /\ speed_pc' = "fetched"
    /\ UNCHANGED <<store, historical, broadcasts, emails, events, now, ops, ticks, last,
                   speed_stations>>

\* ... the processing of the stations and the broadcast.  An exception of
\* send_email leaves process_station_status and the two gathers: the updates
\* of the changed stations are under way by then, the snapshots and the
\* notifications of the stations that got that far are made, nothing is
\* emitted and the task retries
SpeedProcess ==
    LET done == process_stations([st |-> store, hist |-> <<>>, mails |-> <<>>,
                                  changed_stations |-> {}],
                                 speed_stations, speed_bulk,
                                 Loaded(speed_stations), now)
        raised == done.mails # <<>> /\ send_email(smtp_server) # "skipped"
        changed_ids == {c.station_id : c \in done.changed_stations}
    IN /\ speed_pc = "fetched"
       /\ store' = done.st
       /\ IF raised
          THEN \E reached \in SUBSET changed_ids :
                  /\ \E i \in reached : find_premium_users_by_favorite_station(i) # {}
                  /\ historical' = historical \o
                        SelectSeq(done.hist, LAMBDA h : h.station_id \in reached)
                  /\ emails' = emails \o
                        SelectSeq(done.mails, LAMBDA m : m.station_id \in reached)
                  /\ broadcasts' = broadcasts
                  /\ last' = [NoRun EXCEPT
                                !.op = "speed", !.pre = store,
                                !.stations = speed_stations, !.bulk = speed_bulk,
                                !.changed = done.changed_stations,
                                !.snapshots =
                                    SelectSeq(done.hist, LAMBDA h : h.station_id \in reached),
                                !.outcome = "retry", !.time = now]
          ELSE /\ historical' = historical \o done.hist
               /\ emails' = emails \o done.mails
               /\ broadcasts' = emit_status_update(broadcasts, done.changed_stations)
               /\ last' = [NoRun EXCEPT
                             !.op = "speed", !.pre = store,
                             !.stations = speed_stations, !.bulk = speed_bulk,
                             !.changed = done.changed_stations,
                             !.snapshots = done.hist, !.time = now]
       /\ speed_pc' = "idle"
       /\ speed_stations' = [i \in StationIds |-> NoDoc]
       /\ speed_bulk' = EmptyMap
       /\ UNCHANGED <<events, now, ops, ticks>>

\* ---------------------------------------------------------- cache eviction
\* _async_cleanup_cache
Cleanup ==
    /\ store' = cleanup_old_cache(store, now, CacheRetentionHours)
    /\ last' = [NoRun EXCEPT !.op = "cleanup", !.pre = store,
                  !.time = now]
    /\ UNCHANGED <<historical, broadcasts, emails, events, now, ops, ticks,
                   speed_pc, speed_stations, speed_bulk>>

\* the clock
Tick ==
    /\ ticks < MaxTicks
    /\ ticks' = ticks + 1
    /\ now' = now + CacheRetentionHours + 1
    /\ UNCHANGED <<store, historical, broadcasts, emails, events, ops, last,
                   speed_pc, speed_stations, speed_bulk>>

\* ------------------------------------------------------------ update_status
\* one call of StationRepository.update_station_status, as the producers
\* make it
UpdateStatus(tomtom_id, new_status) ==
    LET repeated == /\ last.op = "update_status"
                    /\ last.tomtom_id = tomtom_id
                    /\ last.new_status = new_status
    IN /\ ops < MaxCalls
       /\ ops' = ops + 1
       /\ store' = update_station_status(store, tomtom_id, new_status, now)
       /\ last' = [NoRun EXCEPT
                     !.op = "update_status", !.pre = store,
                     !.tomtom_id = tomtom_id, !.new_status = new_status,
                     !.repeat = IF repeated THEN last.repeat + 1 ELSE 1,
                     !.count0 = IF repeated THEN last.count0
                                ELSE IF store[tomtom_id] = NoDoc THEN 0
                                ELSE store[tomtom_id].availability_status_changes_count,
                     !.time = now]
       /\ UNCHANGED <<historical, broadcasts, emails, events, now, ticks,
                      speed_pc, speed_stations, speed_bulk>>

UpdateStatusCall ==
    \E tomtom_id \in StationIds, new_status \in UpdateStatuses :
        UpdateStatus(tomtom_id, new_status)

\* one call of StationRepository.find_nearby_stations
FindNear(point, radius_meters, status_filter, limit) ==
    /\ last' = [NoRun EXCEPT
                  !.op = "find_near", !.pre = store,
                  !.point = point, !.radius = radius_meters,
                  !.status_filter = status_filter, !.limit = limit,
                  !.result = find_nearby_stations(store, point, radius_meters,
                                                  status_filter, limit),
                  !.time = now]
    /\ UNCHANGED <<store, historical, broadcasts, emails, events, now, ops, ticks,
                   speed_pc, speed_stations, speed_bulk>>

FindNearCall ==
    \E point \in QueryPoints, radius_meters \in Radii,
       status_filter \in {None, "available", "occupied"}, limit \in Limits :
        FindNear(point, radius_meters, status_filter, limit)

\* -------------------------------------------------- sweep tasks, retries
\* the tasks the scheduler of main.py sends
TaskNames == {"batch_update_stations", "poll_station_availability_bulk"}

\* the countdown of self.retry(exc=e): none is passed, so it is the default
\* retry delay (the retry_backoff options of the decorator act on
\* autoretry_for, which the tasks do not set)
retry_countdown(retries) == task_default_retry_delay

\* self.retry(exc=e) in a task that has been retried `retries` times
retry(task) ==
    IF task.retries < max_retries
    THEN [task EXCEPT !.state = "RETRY",
                      !.retries = @ + 1,
                      !.countdowns = Append(@, retry_countdown(task.retries))]
    ELSE [task EXCEPT !.state = "FAILURE"]

TaskInit ==
    /\ store = [i \in StationIds |-> NoDoc]
    /\ historical = <<>>
    /\ broadcasts = <<>>
    /\ emails = <<>>
    /\ events = <<>>
    /\ now = 0
    /\ ops = 0
    /\ ticks = 0
    /\ last = NoRun
    /\ speed_pc = "idle"
    /\ speed_stations = [i \in StationIds |-> NoDoc]
    /\ speed_bulk = EmptyMap
    /\ collection = <<>>
    /\ upserts = <<>>
    /\ fetch = NoFetch
    /\ tasks = <<>>
    /\ smtp_server = None
    /\ notify = NoNotify

\* a job of the scheduler: batch_update_stations.delay(...) or
\* poll_station_availability_bulk.delay()
Trigger ==
    /\ Len(tasks) < MaxTriggers
    /\ \E name \in TaskNames :
          tasks' = Append(tasks, [name |-> name, state |-> "PENDING", retries |-> 0,
                                  runs |-> 0, countdowns |-> <<>>])
    /\ UNCHANGED <<collection, upserts, fetch, smtp_server, notify, run_vars>>

\* a worker runs the task and the run returns its summary
RunReturns ==
    /\ \E k \in 1..Len(tasks) :
          /\ tasks[k].state \in {"PENDING", "RETRY"}
          /\ tasks' = [tasks EXCEPT ![k].runs = @ + 1, ![k].state = "SUCCESS"]
    /\ UNCHANGED <<collection, upserts, fetch, smtp_server, notify, run_vars>>

\* a worker runs the task and the run raises: except Exception, self.retry
RunRaises ==
    /\ \E k \in 1..Len(tasks) :
          /\ tasks[k].state \in {"PENDING", "RETRY"}
          /\ tasks' = [tasks EXCEPT ![k] = retry([@ EXCEPT !.runs = @ + 1])]
    /\ UNCHANGED <<collection, upserts, fetch, smtp_server, notify, run_vars>>

NextTask ==
    \/ Trigger
    \/ RunReturns
    \/ RunRaises

SpecTask == TaskInit /\ [][NextTask]_vars

\* a task is run at most once plus max_retries times, a task that failed has
\* used all its runs, and a task starts with no retry behind it whatever
\* became of the tasks sent before it
RetriesBounded ==
    \A k \in 1..Len(tasks) :
        /\ tasks[k].retries <= max_retries
        /\ tasks[k].runs <= max_retries + 1
        /\ tasks[k].state = "FAILURE" => tasks[k].runs = max_retries + 1
        /\ tasks[k].state = "PENDING" => tasks[k].runs = 0 /\ tasks[k].retries = 0
        /\ Len(tasks[k].countdowns) = tasks[k].retries

\* every retry of a task waits longer than the retry before it
BacksOff ==
    \A k \in 1..Len(tasks) :
        \A j \in 1..(Len(tasks[k].countdowns) - 1) :
            tasks[k].countdowns[j] < tasks[k].countdowns[j + 1]

\* C18 as stated: a sweep task whose run raises is retried at most 3 times,
\* each retry after a longer wait than the one before; after the last run it
\* is not retried, and a later trigger starts a task of its own.
C18_RetriedWithBackoffAtMostThrice ==
    RetriesBounded /\ BacksOff

\* ------------------------------------------------ bulk availability fetch
Min(a, b) == IF a <= b THEN a ELSE b

Elements(seq) == {seq[k] : k \in 1..Len(seq)}

\* the id lists a fetch is asked for
FetchIds ==
    UNION {{[k \in 1..n |-> k], [k \in 1..n |-> n + 1 - k]} : n \in 0..MaxIds}

\* what the availability endpoint does with one call: it fails, it answers
\* for all, for the odd or for none of the ids, or it answers something else
ChunkAnswers == {"raises", "all", "odd", "none", "other"}

Seeds == {0, 1}

Answered(station_ids, answer) ==
    CASE answer = "all" -> Elements(station_ids)
      [] answer = "odd" -> {id \in Elements(station_ids) : id % 2 = 1}
      [] OTHER -> {}

\* a slice that runs to the end of the list
Slice_to_end(station_ids, i, size) == SubSeq(station_ids, i, Len(station_ids))

\* station_ids[i:i + size], counting from 1
Slice(station_ids, i, size) ==
    SubSeq(station_ids, i, Min(i + size - 1, Len(station_ids)))

\* random.choice(['AVAILABLE', 'OCCUPIED', 'OUT_OF_ORDER'])
random_choice(id, seed) ==
    <<"AVAILABLE", "OCCUPIED", "OUT_OF_ORDER">>[((id + seed) % 3) + 1]

\* _fetch_availability_chunk
_fetch_availability_chunk(station_ids, answer, seed) ==
    IF answer = "raises"
    THEN [id \in Elements(station_ids) |-> "AVAILABLE"]
    ELSE IF answer \in {"all", "odd", "none"}
    THEN [id \in Elements(station_ids) |->
             IF id \in Answered(station_ids, answer)
             THEN random_choice(id, seed) ELSE "UNKNOWN"]
    ELSE [id \in Elements(station_ids) |-> "AVAILABLE"]

\* dict.update
update(availability_map, chunk_availability) ==
    [id \in DOMAIN availability_map \cup DOMAIN chunk_availability |->
        IF id \in DOMAIN chunk_availability THEN chunk_availability[id]
        ELSE availability_map[id]]

\* the status the endpoint reports for a station: none, or one of two words
reported_status(id, seed) ==
    <<None, "available", "busy">>[((id + seed) % 3) + 1]

\* the overall status get_stations_availability_sync reads from an entry
overall_status(status) ==
    LET upper == IF status = None THEN "UNKNOWN" ELSE Upper(status)
    IN IF upper = "BUSY" THEN "OCCUPIED" ELSE upper

\* the entries get_stations_availability_sync parses from one response, in
\* the order of the ids of the chunk
RECURSIVE parsed_chunk_data(_, _, _)
parsed_chunk_data(chunk_ids, answer, seed) ==
    IF chunk_ids = <<>> THEN <<>>
    ELSE LET station_id == Head(chunk_ids)
             rest == parsed_chunk_data(Tail(chunk_ids), answer, seed)
         IN IF station_id \in Answered(chunk_ids, answer)
            THEN <<[tomtom_id |-> station_id,
                    overall_status |-> overall_status(reported_status(station_id, seed))]>>
                 \o rest
            ELSE rest

FetchInit ==
    /\ store = [i \in StationIds |-> NoDoc]
    /\ historical = <<>>
    /\ broadcasts = <<>>
    /\ emails = <<>>
    /\ events = <<>>
    /\ now = 0
    /\ ops = 0
    /\ ticks = 0
    /\ last = NoRun
    /\ speed_pc = "idle"
    /\ speed_stations = [i \in StationIds |-> NoDoc]
    /\ speed_bulk = EmptyMap
    /\ collection = <<>>
    /\ upserts = <<>>
    /\ tasks = <<>>
    /\ smtp_server = None
    /\ notify = NoNotify
    /\ \E function \in {"_fetch_availability_for_stations", "get_stations_availability_sync"} :
       \E station_ids \in FetchIds :
           fetch = [NoFetch EXCEPT !.pc = "running", !.function = function,
                                   !.station_ids = station_ids]

\* one turn of the loop of _fetch_availability_for_stations
FetchAvailabilityChunk ==
    /\ fetch.pc = "running"
    /\ fetch.function = "_fetch_availability_for_stations"
    /\ fetch.next <= Len(fetch.station_ids)
    /\ \E answer \in ChunkAnswers, seed \in Seeds :
          LET chunk == Slice(fetch.station_ids, fetch.next, chunk_size)
              chunk_availability == _fetch_availability_chunk(chunk, answer, seed)
          IN fetch' = [fetch EXCEPT
                         !.calls = Append(@, [ids |-> chunk, answer |-> answer,
                                              seed |-> seed]),
                         !.availability_map = update(@, chunk_availability),
                         !.next = @ + chunk_size]
    /\ UNCHANGED <<collection, upserts, tasks, smtp_server, notify, run_vars>>

\* one turn of the loop of get_stations_availability_sync
FetchAvailabilitySyncChunk ==
    /\ fetch.pc = "running"
    /\ fetch.function = "get_stations_availability_sync"
    /\ fetch.next <= Len(fetch.station_ids)
    /\ \E answer \in ChunkAnswers, seed \in Seeds :
          LET chunk_ids == Slice(fetch.station_ids, fetch.next,
                                 TOMTOM_AVAILABILITY_CHUNK_SIZE)
          IN fetch' = [fetch EXCEPT
                         !.calls = Append(@, [ids |-> chunk_ids, answer |-> answer,
                                              seed |-> seed]),
                         !.all_availability_data =
                             @ \o parsed_chunk_data(chunk_ids, answer, seed),
                         !.next = @ + TOMTOM_AVAILABILITY_CHUNK_SIZE]
    /\ UNCHANGED <<collection, upserts, tasks, smtp_server, notify, run_vars>>

\* the return of either function
FetchReturn ==
    /\ fetch.pc = "running"
    /\ fetch.next > Len(fetch.station_ids)
    /\ fetch' = [fetch EXCEPT !.pc = "returned"]
    /\ UNCHANGED <<collection, upserts, tasks, smtp_server, notify, run_vars>>

NextFetch ==
    \/ FetchAvailabilityChunk
    \/ FetchAvailabilitySyncChunk
    \/ FetchReturn

SpecFetch == FetchInit /\ [][NextFetch]_vars

ChunkLimit(function) ==
    IF function = "_fetch_availability_for_stations" THEN chunk_size
    ELSE TOMTOM_AVAILABILITY_CHUNK_SIZE

\* the ids of the calls made, one call after the other
RECURSIVE Sent(_)
Sent(calls) ==
    IF calls = <<>> THEN <<>> ELSE Head(calls).ids \o Sent(Tail(calls))

\* a list of availability entries as a map from id to status
AsMap(data) ==
    [id \in {data[k].tomtom_id : k \in 1..Len(data)} |->
        (CHOOSE e \in Elements(data) : e.tomtom_id = id).overall_status]

\* what one call contributed
ChunkResult(function, call) ==
    IF function = "_fetch_availability_for_stations"
    THEN _fetch_availability_chunk(call.ids, call.answer, call.seed)
    ELSE AsMap(parsed_chunk_data(call.ids, call.answer, call.seed))

\* what the fetch returns, as a map from id to status
ResultMap ==
    IF fetch.function = "_fetch_availability_for_stations"
    THEN fetch.availability_map
    ELSE AsMap(fetch.all_availability_data)

\* C16 as stated: when the fetch has returned, every chunk was called, the
\* statuses of the chunks that did not fail are in the result, and no id of
\* a chunk whose call failed has a status in the result.
C16_FailedChunkIsAbsent ==
    fetch.pc = "returned" =>
        /\ Sent(fetch.calls) = fetch.station_ids
        /\ \A c \in 1..Len(fetch.calls) :
               IF fetch.calls[c].answer = "raises"
               THEN \A id \in Elements(fetch.calls[c].ids) : id \notin DOMAIN ResultMap
               ELSE \A id \in DOMAIN ChunkResult(fetch.function, fetch.calls[c]) :
                        /\ id \in DOMAIN ResultMap
                        /\ ResultMap[id] = ChunkResult(fetch.function, fetch.calls[c])[id]

find_one(coll, tomtom_id) ==
    LET hits == {k \in 1..Len(coll) : coll[k].tomtom_id = tomtom_id}
    IN IF hits = {} THEN NoDoc
       ELSE coll[CHOOSE k \in hits : \A j \in hits : k <= j]

\* an insert into a collection that has no unique index
insert_one_no_index(coll, doc) ==
    [raised |-> "none", coll |-> Append(coll, doc)]

\* collection.insert_one under the unique index on tomtom_id
insert_one(coll, doc) ==
    IF \E k \in 1..Len(coll) : coll[k].tomtom_id = doc.tomtom_id
    THEN [raised |-> "DuplicateKeyError", coll |-> coll]
    ELSE [raised |-> "none", coll |-> Append(coll, doc)]

\* collection.update_one({"tomtom_id": ...}, {"$set": ...}) with the fields
\* the cache refill and the batch sweep set
update_one(coll, tomtom_id, new_status, t) ==
    LET hits == {k \in 1..Len(coll) : coll[k].tomtom_id = tomtom_id}
    IN IF hits = {} THEN coll
       ELSE LET k == CHOOSE a \in hits : \A b \in hits : a <= b
            IN [coll EXCEPT ![k].status = new_status,
                            ![k].last_updated = t,
                            ![k].connectors = <<"AVAILABLE">>,
                            ![k].data_source = "TOMTOM"]

\* a document built without the connectors of the station
station_doc_without_connectors(tomtom_id, status, t) ==
    [tomtom_id |-> tomtom_id,
     status |-> status,
     location |-> Position(tomtom_id),
     connectors |-> <<>>,
     last_updated |-> t,
     data_source |-> "TOMTOM",
     availability_status_changes_count |-> 0]

\* the document create_station builds
station_doc(tomtom_id, status, t) ==
    [tomtom_id |-> tomtom_id,
     status |-> status,
     location |-> Position(tomtom_id),
     connectors |-> <<"AVAILABLE">>,
     last_updated |-> t,
     data_source |-> "TOMTOM",
     availability_status_changes_count |-> 0]

\* StationRepository.create_station on the list of documents: an exception
\* of insert_one is caught and False returned
create_station_document(coll, tomtom_id, status, t) ==
    LET done == insert_one(coll, station_doc(tomtom_id, status, t))
    IN [coll |-> done.coll, ok |-> done.raised = "none"]

UpsertRequests ==
    [kind : {"search", "batch"}, tomtom_id : StationIds, status : AreaStatuses,
     pc : {"lookup"}, existing : {NoDoc}, created : {"none"}]

InitCollections == {<<>>, <<station_doc(1, "AVAILABLE", 0)>>}

UpsertInit ==
    /\ store = [i \in StationIds |-> NoDoc]
    /\ historical = <<>>
    /\ broadcasts = <<>>
    /\ emails = <<>>
    /\ events = <<>>
    /\ now = 0
    /\ ops = 0
    /\ ticks = 0
    /\ last = NoRun
    /\ speed_pc = "idle"
    /\ speed_stations = [i \in StationIds |-> NoDoc]
    /\ speed_bulk = EmptyMap
    /\ collection \in InitCollections
    /\ upserts \in [Producers -> UpsertRequests]
    /\ fetch = NoFetch
    /\ tasks = <<>>
    /\ smtp_server = None
    /\ notify = NoNotify

\* find_by_tomtom_id in the loop body of cache_tomtom_stations and of
\* _async_batch_update
UpsertLookup(p) ==
    /\ upserts[p].pc = "lookup"
    /\ upserts' = [upserts EXCEPT
                     ![p].existing = find_one(collection, upserts[p].tomtom_id),
                     ![p].pc = "write"]
    /\ UNCHANGED <<collection, fetch, tasks, smtp_server, notify, run_vars>>

\* the write that follows the lookup: create_station when nothing was found,
\* else update_station_status (the batch sweep only on a different status);
\* datetime.utcnow() of a later write is later
UpsertWrite(p) ==
    LET req == upserts[p]
        made == create_station_document(collection, req.tomtom_id, req.status, now)
    IN /\ req.pc = "write"
       /\ IF req.existing = NoDoc
          THEN /\ collection' = made.coll
               /\ upserts' = [upserts EXCEPT
                                ![p].created = IF made.ok THEN "inserted" ELSE "rejected",
                                ![p].pc = "done"]
          ELSE /\ collection' =
                     IF req.kind = "search" \/ req.existing.status # req.status
                     THEN update_one(collection, req.tomtom_id, req.status, now)
                     ELSE collection
               /\ upserts' = [upserts EXCEPT ![p].pc = "done"]
       /\ now' = now + 1
       /\ UNCHANGED <<store, historical, broadcasts, emails, events, ops, ticks, last,
                      speed_pc, speed_stations, speed_bulk, fetch, tasks, smtp_server, notify>>

NextUpsert ==
    \/ \E p \in Producers : UpsertLookup(p)
    \/ \E p \in Producers : UpsertWrite(p)

SpecUpsert == UpsertInit /\ [][NextUpsert]_vars

DocumentsOf(coll, tomtom_id) ==
    {k \in 1..Len(coll) : coll[k].tomtom_id = tomtom_id}

\* C13: whatever the interleaving of the lookups and inserts of two
\* producers, the collection never holds two documents with one station id,
\* and when both are done it holds exactly one for each id they upserted.
C13_OneRecordPerId ==
    /\ \A i \in StationIds : Cardinality(DocumentsOf(collection, i)) <= 1
    /\ (upserts # <<>> /\ \A p \in Producers : upserts[p].pc = "done")
         => \A p \in Producers :
                Cardinality(DocumentsOf(collection, upserts[p].tomtom_id)) = 1

\* a search and a batch sweep that both found the same id unknown and both
\* inserted it
C13_Witness ==
    /\ upserts # <<>>
    /\ upserts["p1"].kind = "search" /\ upserts["p2"].kind = "batch"
    /\ upserts["p1"].tomtom_id = upserts["p2"].tomtom_id
    /\ \A p \in Producers :
           /\ upserts[p].pc = "done"
           /\ upserts[p].existing = NoDoc
           /\ upserts[p].created # "none"
    /\ \E p \in Producers : upserts[p].created = "rejected"

\* one producer applies the payload another producer has finished applying,
\* and looks the station up after that
AppliesAgain(p, q) ==
    /\ upserts # <<>>
    /\ upserts[q].pc = "done"
    /\ upserts[p].pc = "write" /\ upserts'[p].pc = "done"
    /\ upserts[p].kind = "search" /\ upserts[q].kind = "search"
    /\ upserts[p].tomtom_id = upserts[q].tomtom_id
    /\ upserts[p].status = upserts[q].status
    /\ upserts[p].existing = find_one(collection, upserts[p].tomtom_id)

SameButLastUpdated(doc1, doc2) ==
    [doc1 EXCEPT !.last_updated = 0] = [doc2 EXCEPT !.last_updated = 0]

\* C15: a second application of a payload through cache_tomtom_stations
\* adds no document and leaves every document as the first application left
\* it, last_updated excepted.
C15_SecondUpsertChangesOnlyTimestamp ==
    [][\A p \in Producers : \A q \in Producers \ {p} :
          AppliesAgain(p, q) =>
              /\ Len(collection') = Len(collection)
              /\ \A k \in 1..Len(collection) :
                     SameButLastUpdated(collection'[k], collection[k])]_vars

\* the first application inserted the station, the second one found it and
\* touched its last_updated
C15_Witness ==
    /\ upserts # <<>>
    /\ \A p \in Producers : upserts[p].pc = "done" /\ upserts[p].kind = "search"
    /\ upserts["p1"].tomtom_id = upserts["p2"].tomtom_id
    /\ upserts["p1"].status = upserts["p2"].status
    /\ upserts["p1"].created = "inserted"
    /\ upserts["p2"].existing # NoDoc
    /\ upserts["p2"].existing.status = upserts["p2"].status
    /\ Len(collection) = 1
    /\ collection[1].last_updated > upserts["p2"].existing.last_updated

\* ------------------------------------------------- speed sweep properties
\* the step that completes a speed sweep run which loaded stations
SpeedCompletes == speed_pc = "fetched" /\ speed_pc' = "idle"

\* what that step appended to the ledger, the broadcasts and the e-mails
NewSnapshots == SubSeq(historical', Len(historical) + 1, Len(historical'))
NewBroadcasts == SubSeq(broadcasts', Len(broadcasts) + 1, Len(broadcasts'))
NewEmails == SubSeq(emails', Len(emails) + 1, Len(emails'))

Stored(st) == {i \in StationIds : st[i] # NoDoc}

\* C1: in a speed sweep run, a loaded station whose identifier is missing
\* from the bulk status result is left untouched: its stored document is
\* not modified, the run writes no snapshot and no ChangeEvent for it, it is
\* in no broadcast of the run and no e-mail is sent for it.
C1_MissingIdUntouched ==
    [][SpeedCompletes =>
        \A i \in Loaded(speed_stations) \ DOMAIN speed_bulk :
            /\ store'[i] = store[i]
            /\ \A k \in 1..Len(NewSnapshots) : NewSnapshots[k].station_id # i
            /\ \A k \in 1..Len(NewBroadcasts) :
                   \A c \in NewBroadcasts[k] : c.station_id # i
            /\ \A k \in 1..Len(NewEmails) : NewEmails[k].station_id # i
            /\ events' = events]_vars

\* a run completed in which a loaded station was missing from the bulk result
\* while the store held a document for it
C1_Witness ==
    /\ last.op = "speed"
    /\ \E i \in Loaded(last.stations) \ DOMAIN last.bulk :
           store[i] # NoDoc /\ last.pre[i] # NoDoc

\* the step of a speed sweep run that finds no station and returns at once
SpeedReturnsEmpty == speed_pc = "idle" /\ last' # last /\ last'.op = "speed"

C9_NoInsertNoWriteToUnchanged ==
    [][/\ SpeedReturnsEmpty => store' = store
       /\ SpeedCompletes =>
            /\ Stored(store') \subseteq Stored(store)
            /\ \A i \in DOMAIN speed_bulk \ Stored(store) : store'[i] = NoDoc
            /\ \A i \in Loaded(speed_stations) \cap DOMAIN speed_bulk :
                   speed_bulk[i] = speed_stations[i].status
                       => store'[i] = store[i]]_vars

\* a run whose bulk result named a station the store no longer held, and
\* returned for another, stored station the status it had
C9_Witness ==
    /\ last.op = "speed"
    /\ \E i \in DOMAIN last.bulk : last.pre[i] = NoDoc /\ store[i] = NoDoc
    /\ \E j \in Loaded(last.stations) \cap DOMAIN last.bulk :
           /\ last.bulk[j] = last.stations[j].status
           /\ last.pre[j] # NoDoc
           /\ last.pre[j].status = last.bulk[j]
           /\ store[j] = last.pre[j]

\* ------------------------------------------------------ counter properties
\* C3: every write that changes a station's stored status increases its
\* change counter by exactly 1 and every other write leaves the counter as
\* it is, so that the counter equals the number of status-changing writes.
C3_CounterCountsStatusChanges ==
    [][\A i \in Stored(store) \cap Stored(store') :
          store'[i].availability_status_changes_count =
              store[i].availability_status_changes_count
              + (IF store'[i].status # store[i].status THEN 1 ELSE 0)]_vars

\* C4: after update_station_status was called twice or more in a row with
\* the same station id and the same status, the change counter is at most
\* one above its value before the first of these calls, and the last call
\* did not move it.
C4_RepeatedUpdateCountsOnce ==
    (last.op = "update_status" /\ last.repeat >= 2
         /\ store[last.tomtom_id] # NoDoc /\ last.pre[last.tomtom_id] # NoDoc)
    => /\ store[last.tomtom_id].availability_status_changes_count <= last.count0 + 1
       /\ store[last.tomtom_id].availability_status_changes_count
              = last.pre[last.tomtom_id].availability_status_changes_count

\* update_station_status called twice in a row on a stored station with a
\* status other than the one it had before the first call
C4_Witness ==
    /\ last.op = "update_status"
    /\ last.repeat = 2
    /\ last.pre[last.tomtom_id] # NoDoc
    /\ store[last.tomtom_id].status = "OCCUPIED"
    /\ last.pre[last.tomtom_id].status = "OCCUPIED"
    /\ store[last.tomtom_id].last_updated > 0

\* ----------------------------------------------- cache-aside properties
\* C5: when the adapter call of a search fails, the request answers
\* HTTP 200 with exactly the result of find_nearby_stations on the store as
\* it was, and the store is left as it was.
C5_AdapterFailureServesLocal ==
    (last.op = "search" /\ last.adapter_failed)
    => /\ last.outcome = "HTTP 200"
       /\ last.result = find_nearby_stations(last.pre, last.point, last.radius,
                                             last.status_filter, last.limit)
       /\ store = last.pre

\* a search whose adapter call failed and which still returned a station
C5_Witness ==
    /\ last.op = "search"
    /\ last.adapter_failed
    /\ Len(last.result) > 0
    /\ Stored(last.pre) # StationIds

\* C6: after a search that fetched stations from the adapter, the store
\* holds exactly the stations it held before and the fetched ones that are
\* new, the new ones with the fetched status, the stations not fetched are
\* as they were, and the result is what find_nearby_stations returns on the
\* updated store for the same parameters.
C6_RefillIsUnionAndResultIsFresh ==
    (last.op = "search" /\ DOMAIN last.fetched # {})
    => LET new_ids == DOMAIN last.fetched \ Stored(last.pre)
       IN /\ Stored(store) = Stored(last.pre) \cup new_ids
          /\ \A i \in new_ids : store[i].status = last.fetched[i]
          /\ \A i \in Stored(last.pre) \ DOMAIN last.fetched : store[i] = last.pre[i]
          /\ last.result = find_nearby_stations(store, last.point, last.radius,
                                                last.status_filter, last.limit)
          /\ last.outcome = "HTTP 200"

\* a search that added one station to a store holding another, and returned
\* fewer stations than the store holds
C6_Witness ==
    /\ last.op = "search"
    /\ Stored(last.pre) # {}
    /\ DOMAIN last.fetched \ Stored(last.pre) # {}
    /\ Len(last.result) > 0
    /\ Len(last.result) < Cardinality(Stored(store))

\* ------------------------------------------------- batch sweep properties
\* the snapshots of one station a run wrote
SnapshotsOf(snapshots, i) ==
    {k \in 1..Len(snapshots) : snapshots[k].station_id = i}

\* the run's snapshots are the end of the ledger
AppendedLast(snapshots) ==
    /\ Len(snapshots) <= Len(historical)
    /\ SubSeq(historical, Len(historical) - Len(snapshots) + 1, Len(historical))
           = snapshots

BatchDone == last.op = "batch" /\ last.outcome = "success"

NewCountIsAbsentBefore ==
    last.summary.new_stations
        = Cardinality(DOMAIN last.fetched \ Stored(last.pre))

PreviousSnapshot(i, n) ==
    LET earlier == {k \in 1..n : historical[k].station_id = i}
    IN IF earlier = {} THEN 0
       ELSE CHOOSE k \in earlier : \A j \in earlier : j <= k

\* C8: a batch sweep that directly follows a batch sweep of the same region
\* with the same adapter response changes no stored status and no change
\* counter, reports zero updated stations and appends no snapshot whose
\* status differs from the station's previous snapshot.
C8_SecondBatchFindsNoDelta ==
    (last.op = "batch" /\ last.again) =>
        /\ \A i \in Stored(last.pre) :
               /\ store[i] # NoDoc
               /\ store[i].status = last.pre[i].status
               /\ store[i].availability_status_changes_count
                      = last.pre[i].availability_status_changes_count
        /\ last.summary.updated_stations = 0
        /\ AppendedLast(last.snapshots)
        /\ \A k \in (Len(historical) - Len(last.snapshots) + 1)..Len(historical) :
               LET before == PreviousSnapshot(historical[k].station_id, k - 1)
               IN before # 0 => historical[before].status = historical[k].status

\* a second run over a response the first run had to write: one station
\* with a status the ledger renames, and the ledger not empty
C8_Witness ==
    /\ last.op = "batch"
    /\ last.again
    /\ \E i \in DOMAIN last.fetched : last.fetched[i] = "UNKNOWN"
    /\ \E i \in DOMAIN last.fetched : last.fetched[i] = "OCCUPIED"
    /\ Len(historical) = 2

\* ------------------------------------------------------ find_near property
\* C10: whatever the store holds, every station find_nearby_stations
\* returns for a point, radius, status filter and limit lies within the
\* radius of the point, as does every station a search returned.
C10_ResultsWithinRadius ==
    /\ \A point \in QueryPoints, radius_meters \in Radii,
          status_filter \in SearchFilters, limit \in Limits :
           LET found == find_nearby_stations(store, point, radius_meters,
                                             status_filter, limit)
           IN \A k \in 1..Len(found) :
                  /\ found[k].distance <= radius_meters
                  /\ Distance(Position(found[k].tomtom_id), point) <= radius_meters
    /\ last.op = "search" =>
           \A k \in 1..Len(last.result) :
               Distance(Position(last.result[k].tomtom_id), last.point) <= last.radius

\* a search that returned a station while the store held one beyond the
\* radius
C10_Witness ==
    /\ last.op = "search"
    /\ Len(last.result) > 0
    /\ \E i \in Stored(store) : Distance(store[i].location, last.point) > last.radius

\* C11: find_nearby_stations returns matching stations, each once, in order
\* of increasing distance from the query point; it returns all of them when
\* at most limit match and limit of them otherwise, and no returned station
\* is farther from the point than a matching station it left out.
C11_NearestFirstWithinLimit ==
    last.op = "find_near" =>
        LET matching == {i \in Stored(store) :
                            /\ Distance(Position(i), last.point) <= last.radius
                            /\ (last.status_filter # None
                                  => store[i].status = Upper(last.status_filter))}
            found == last.result
            returned == {found[k].tomtom_id : k \in 1..Len(found)}
        IN /\ returned \subseteq matching
           /\ Cardinality(returned) = Len(found)
           /\ Len(found) = IF Cardinality(matching) <= last.limit
                           THEN Cardinality(matching) ELSE last.limit
           /\ \A k \in 1..Len(found) :
                  found[k].distance = Distance(Position(found[k].tomtom_id), last.point)
           /\ \A k \in 1..(Len(found) - 1) : found[k].distance <= found[k + 1].distance
           /\ \A i \in matching \ returned : \A k \in 1..Len(found) :
                  found[k].distance <= Distance(Position(i), last.point)

\* a call with limit 1 that two stations at different distances matched
C11_Witness ==
    /\ last.op = "find_near"
    /\ last.limit = 1
    /\ last.point = 0
    /\ last.radius = 2000
    /\ Stored(store) = StationIds
    /\ last.status_filter = "occupied"
    /\ \A i \in StationIds : store[i].status = "OCCUPIED"
    /\ Len(last.result) = 1

\* ------------------------------------------------------ eviction property
\* C12: a station document leaves the store only in a step of the cache
\* eviction job, and only if it is adapter-sourced and was last updated
\* more than the retention window of 24 hours ago; no step of a search, a
\* batch sweep or a speed sweep removes a document.
C12_OnlyEvictionDeletesStale ==
    [][\A i \in Stored(store) \ Stored(store') :
          /\ last'.op = "cleanup"
          /\ last'.pre = store
          /\ store[i].data_source = "TOMTOM"
          /\ store[i].last_updated + 24 < now]_vars

\* an eviction that removed a stale station and kept a fresh one
C12_Witness ==
    /\ last.op = "cleanup"
    /\ \E i \in Stored(last.pre) : store[i] = NoDoc
    /\ \E j \in Stored(last.pre) : store[j] # NoDoc /\ store[j].last_updated = now

\* C19 as stated: a batch sweep whose adapter call failed is handed to the
\* scheduler for a retry and does not return a summary with status success.
C19_AdapterFailureFailsBatch ==
    (last.op = "batch" /\ last.adapter_failed) => last.outcome = "retry"

StatusOf(st) == [i \in StationIds |-> IF st[i] = NoDoc THEN None ELSE st[i].status]

BatchFrom(st, fetched, t) ==
    batch_loop([st |-> st, hist |-> <<>>, inserted_count |-> 0,
                updated_count |-> 0, historical_saved |-> 0, db_errors |-> {}],
               fetched, DOMAIN fetched, t).st

SpeedFrom(st, bulk_status, t) ==
    process_stations([st |-> st, hist |-> <<>>, mails |-> <<>>,
                      changed_stations |-> {}],
                     get_all_stations(st), bulk_status,
                     Loaded(get_all_stations(st)), t).st

\* the two serial executions of a speed sweep and a batch sweep
SpeedThenBatch(st, fetched, bulk_status, t) ==
    BatchFrom(SpeedFrom(st, bulk_status, t), fetched, t)

BatchThenSpeed(st, fetched, bulk_status, t) ==
    SpeedFrom(BatchFrom(st, fetched, t), bulk_status, t)

\* a speed sweep finishes, and a whole batch sweep ran between its load and
\* its writes
OverlappedSpeedCompletes ==
    /\ SpeedCompletes
    /\ last.op = "batch"
    /\ last.outcome = "success"
    /\ get_all_stations(last.pre) = speed_stations
    /\ StatusOf(store) = StatusOf(BatchFrom(last.pre, last.fetched, last.time))

\* the status of the write applied last to station i by the two sweeps
LastWritten(i) ==
    IF \E c \in last'.changed : c.station_id = i THEN speed_bulk[i]
    ELSE IF i \in DOMAIN last.fetched THEN last.fetched[i]
    ELSE StatusOf(last.pre)[i]

LastWriteWins == \A i \in StationIds : StatusOf(store')[i] = LastWritten(i)

CanonicalStatuses == {"AVAILABLE", "OCCUPIED", "OFFLINE", "MAINTENANCE", "UNKNOWN"}

\* C21 as stated: every status a stored station has is one of AVAILABLE,
\* OCCUPIED, OFFLINE, MAINTENANCE and UNKNOWN.
C21_StoredStatusIsCanonical ==
    \A i \in Stored(store) : store[i].status \in CanonicalStatuses

\* ------------------------------------------------------- historical ledger
\* cleanup_old_historical_data(days_threshold = 30); the schedule passes
\* DEFAULT_HISTORICAL_DAYS_TO_KEEP, 30 as well
days_threshold == 30

\* the TTL index on timestamp: expireAfterSeconds = 90 days
expireAfterDays == 90

\* the steps the clock takes beside the ledger, in hours
LedgerAdvances == {1, 24 * days_threshold + 1, 24 * expireAfterDays + 1}

\* a cleanup that deletes whatever the ledger holds
delete_old_records_any_age(hist, cutoff_date) == <<>>

\* HistoricalRepository.delete_old_records:
\* delete_many({"timestamp": {"$lt": cutoff_date}})
delete_old_records(hist, cutoff_date) ==
    SelectSeq(hist, LAMBDA snapshot : ~(snapshot.timestamp < cutoff_date))

\* _async_cleanup_historical
CleanupHistorical ==
    LET cutoff_date == now - 24 * days_threshold
    IN /\ historical' = delete_old_records(historical, cutoff_date)
       /\ last' = [NoRun EXCEPT !.op = "cleanup_historical",
                     !.snapshots = historical, !.time = now]
       /\ UNCHANGED <<store, broadcasts, emails, events, now, ops, ticks,
                      speed_pc, speed_stations, speed_bulk>>

\* the database's TTL monitor on the timestamp_ttl index
ExpireSnapshots ==
    /\ historical' = SelectSeq(historical, LAMBDA snapshot :
                         ~(snapshot.timestamp + 24 * expireAfterDays < now))
    /\ last' = [NoRun EXCEPT !.op = "expire",
                  !.snapshots = historical, !.time = now]
    /\ UNCHANGED <<store, broadcasts, emails, events, now, ops, ticks,
                   speed_pc, speed_stations, speed_bulk>>

\* the clock, by an hour, past the days kept, past the index's expiry
LedgerTick ==
    /\ ticks < MaxTicks
    /\ ticks' = ticks + 1
    /\ \E hours \in LedgerAdvances : now' = now + hours
    /\ UNCHANGED <<store, historical, broadcasts, emails, events, ops, last,
                   speed_pc, speed_stations, speed_bulk>>

\* the entries of s at the positions in keep, in order
RECURSIVE KeepAt(_, _, _)
KeepAt(s, keep, n) ==
    IF n = 0 THEN <<>>
    ELSE IF n \in keep THEN Append(KeepAt(s, keep, n - 1), s[n])
    ELSE KeepAt(s, keep, n - 1)

\* the retention of the step that removes snapshots, in hours
RetentionOf(op) ==
    IF op = "cleanup_historical" THEN 24 * days_threshold ELSE 24 * expireAfterDays

\* C22: a snapshot, once written, is never modified; snapshots are appended
\* only by the batch sweep and the speed sweep, never by a cache-aside
\* search; a snapshot is removed only by the expiry or the cleanup, and only
\* when its timestamp is older than the retention cutoff.
C22_LedgerIsAppendOnly ==
    [][ \/ /\ Len(historical') >= Len(historical)
           /\ SubSeq(historical', 1, Len(historical)) = historical
           /\ Len(historical') > Len(historical) => last'.op \in {"batch", "speed"}
        \/ /\ last'.op \in {"cleanup_historical", "expire"}
           /\ \E keep \in SUBSET (1 .. Len(historical)) :
                /\ historical' = KeepAt(historical, keep, Len(historical))
                /\ \A n \in (1 .. Len(historical)) \ keep :
                     historical[n].timestamp < now - RetentionOf(last'.op)
      ]_vars

\* the cleanup has removed the snapshots older than the cutoff and has kept
\* a later one
C22_Witness ==
    /\ last.op = "cleanup_historical"
    /\ Len(historical) > 0
    /\ Len(last.snapshots) > Len(historical)

\* ------------------------------------------- store calls, database errors
\* what a call of the repository gives its caller: a value, or an exception
Returns(st, value) == [st |-> st, raised |-> FALSE, value |-> value]

\* StationRepository.find_nearby_stations with its except branch
find_nearby_stations_call(st, point, radius_meters, status_filter, limit, db_error) ==
    IF db_error THEN Returns(st, <<>>)
    ELSE Returns(st, find_nearby_stations(st, point, radius_meters, status_filter, limit))

\* StationRepository.find_by_tomtom_id with its except branch
find_by_tomtom_id_call(st, tomtom_id, db_error) ==
    IF db_error THEN Returns(st, None)
    ELSE Returns(st, find_by_tomtom_id(st, tomtom_id))

\* StationRepository.create_station with its except branch; the unique
\* index on tomtom_id refuses a second document of a station
create_station_call(st, tomtom_id, status, t, db_error) ==
    IF db_error \/ st[tomtom_id] # NoDoc THEN Returns(st, FALSE)
    ELSE Returns(create_station(st, tomtom_id, status, t), TRUE)

\* StationRepository.update_station_status with its except branch
update_station_status_call(st, tomtom_id, new_status, t, db_error) ==
    IF db_error THEN Returns(st, FALSE)
    ELSE Returns(update_station_status(st, tomtom_id, new_status, t),
                 st[tomtom_id] # NoDoc)

\* one call of a store operation by a producer or the search, the database
\* failing it or not
StoreCall(operation, tomtom_id, status, point, radius_meters, limit, db_error) ==
    LET call ==
          CASE operation = "find_near" ->
                 find_nearby_stations_call(store, point, radius_meters, None, limit, db_error)
            [] operation = "find_by_id" ->
                 find_by_tomtom_id_call(store, tomtom_id, db_error)
            [] operation = "insert" ->
                 create_station_call(store, tomtom_id, status, now, db_error)
            [] operation = "update_status" ->
                 update_station_status_call(store, tomtom_id, status, now, db_error)
    IN /\ ops < MaxOps
       /\ ops' = ops + 1
       /\ store' = call.st
       /\ last' = [NoRun EXCEPT
                     !.op = operation, !.pre = store,
                     !.tomtom_id = tomtom_id, !.new_status = status,
                     !.point = point, !.radius = radius_meters, !.limit = limit,
                     !.db_error = db_error,
                     !.returned = [raised |-> call.raised, value |-> call.value],
                     !.time = now]
       /\ UNCHANGED <<historical, broadcasts, emails, events, now, ticks,
                      speed_pc, speed_stations, speed_bulk>>

StoreOperations == {"find_near", "find_by_id", "insert", "update_status"}

StoreCallOk ==
    \E operation \in StoreOperations, tomtom_id \in StationIds,
       status \in UpdateStatuses, radius_meters \in Radii :
        StoreCall(operation, tomtom_id, status, 0, radius_meters, 50, FALSE)

StoreCallFails ==
    \E operation \in StoreOperations, tomtom_id \in StationIds,
       status \in UpdateStatuses, radius_meters \in Radii :
        StoreCall(operation, tomtom_id, status, 0, radius_meters, 50, TRUE)

\* C23 as stated: a store operation that hits an error of the database
\* gives its caller an error, not an empty result, None or False.
C23_DatabaseErrorIsRaised ==
    (last.op \in StoreOperations /\ last.db_error) => last.returned.raised

\* C24 as stated: in a batch sweep, a failed write of one fetched station
\* leaves that station's stored document as it was, every other fetched
\* station is written as in a run without the failure, and the failed
\* station is in neither the count of new nor the count of updated stations.
C24_FailedWriteIsReportedApart ==
    (last.op = "batch" /\ last.db_errors # {}) =>
        LET ids == DOMAIN last.fetched
            others == ids \ last.db_errors
            inserted == {i \in others : last.pre[i] = NoDoc}
            updated == {i \in others : /\ last.pre[i] # NoDoc
                                       /\ last.pre[i].status # last.fetched[i]}
        IN /\ \A i \in last.db_errors : store[i] = last.pre[i]
           /\ \A i \in others : store[i] # NoDoc /\ store[i].status = last.fetched[i]
           /\ last.summary.new_stations = Cardinality(inserted)
           /\ last.summary.updated_stations = Cardinality(updated)

\* ------------------------------------------------ one transition, two runs
\* The collection as earlier batch runs leave it: the stations they stored,
\* each with the status the provider gave last.
InitStoresAfterBatch ==
    {[i \in StationIds |-> IF status[i] = None THEN NoDoc
                           ELSE [status |-> status[i],
                                 location |-> Position(i),
                                 connectors |-> <<"AVAILABLE">>,
                                 last_updated |-> 0,
                                 data_source |-> "TOMTOM",
                                 availability_status_changes_count |-> 0]] :
        status \in [StationIds -> {None, "AVAILABLE", "OCCUPIED"}]}

InitRace ==
    /\ store \in InitStoresAfterBatch
    /\ historical = <<>>
    /\ broadcasts = <<>>
    /\ emails = <<>>
    /\ events = <<>>
    /\ now = 0
    /\ ops = 0
    /\ ticks = 0
    /\ last = NoRun
    /\ speed_pc = "idle"
    /\ speed_stations = [i \in StationIds |-> NoDoc]
    /\ speed_bulk = EmptyMap
    /\ collection = <<>>
    /\ upserts = <<>>
    /\ fetch = NoFetch
    /\ tasks = <<>>
    /\ smtp_server \in SmtpServers
    /\ notify = NoNotify

Runnable ==
    /\ tasks # <<>>
    /\ tasks[Len(tasks)].state \in {"PENDING", "RETRY"}

\* the scheduler's job sends the task when the task before it is over
SpeedTrigger ==
    /\ Len(tasks) < MaxSends
    /\ ~Runnable
    /\ speed_pc = "idle"
    /\ tasks' = Append(tasks, [name |-> "poll_station_availability_bulk",
                               state |-> "PENDING", retries |-> 0,
                               runs |-> 0, countdowns |-> <<>>])
    /\ UNCHANGED <<collection, upserts, fetch, smtp_server, notify, run_vars>>

\* the worker starts a run of the task; with no station stored the run
\* returns at once
SpeedRunLoad ==
    /\ Runnable
    /\ SpeedLoadStations
    /\ tasks' = [tasks EXCEPT ![Len(tasks)].runs = @ + 1,
                              ![Len(tasks)].state =
                                  IF speed_pc' = "idle" THEN "SUCCESS" ELSE @]
    /\ UNCHANGED <<ops, collection, upserts, fetch, smtp_server, notify>>

SpeedRunFetch ==
    /\ SpeedFetch
    /\ UNCHANGED aside_vars

\* the run ends: it returns its summary, or it raises and the task calls
\* self.retry
SpeedRunProcess ==
    /\ SpeedProcess
    /\ tasks' = [tasks EXCEPT ![Len(tasks)] =
                    IF last'.outcome = "retry" THEN retry(@)
                    ELSE [@ EXCEPT !.state = "SUCCESS"]]
    /\ UNCHANGED <<collection, upserts, fetch, smtp_server, notify>>

NextRetry ==
    \/ SpeedTrigger
    \/ SpeedRunLoad
    \/ SpeedRunFetch
    \/ SpeedRunProcess

\* the worker runs every task it is sent and every retry that is due
SpecRetry == Init /\ [][NextRetry]_vars /\ WF_vars(NextRetry)

\* a run of the speed sweep has written new_status to the station
WrittenBySpeed(tomtom_id, new_status) ==
    /\ last.op = "speed"
    /\ last.pre[tomtom_id] # NoDoc
    /\ \E c \in last.changed : c.station_id = tomtom_id /\ c.new_status = new_status

\* a broadcast carries an entry of the station with new_status
InBroadcast(tomtom_id, new_status) ==
    \E k \in 1..Len(broadcasts) :
        \E c \in broadcasts[k] : c.station_id = tomtom_id /\ c.new_status = new_status

ReportedBySpeed ==
    {c.station_id : c \in UNION {NewBroadcasts[k] : k \in 1..Len(NewBroadcasts)}}
    \cup {NewSnapshots[k].station_id : k \in 1..Len(NewSnapshots)}
    \cup {NewEmails[k].station_id : k \in 1..Len(NewEmails)}

C28_FreshlySweptIsKept ==
    [][(/\ last.op = "batch"
        /\ last'.op = "cleanup"
        /\ now - last.time < CacheRetentionHours) =>
          \A i \in DOMAIN last.fetched : store'[i] # NoDoc]_vars

\* ------------------------------------------------- search in a dense area
\* the stations a well filled store holds around a query point
DenseIds == 1 .. (MIN_STATIONS_THRESHOLD + 1)

\* the query point in their middle and the radii asked for
DensePoint == Position(3)
DenseRadii == {2000, 3000}

\* The collection holds the nearest stations of the area, as earlier refills
\* and sweeps stored them.
InitDenseStores ==
    {[i \in DenseIds |-> IF i <= n
                         THEN [status |-> "AVAILABLE",
                               location |-> Position(i),
                               connectors |-> <<"AVAILABLE">>,
                               last_updated |-> 0,
                               data_source |-> "TOMTOM",
                               availability_status_changes_count |-> 0]
                         ELSE NoDoc] : n \in 0 .. (MIN_STATIONS_THRESHOLD + 1)}

InitDense ==
    /\ store \in InitDenseStores
    /\ historical = <<>>
    /\ broadcasts = <<>>
    /\ emails = <<>>
    /\ events = <<>>
    /\ now = 0
    /\ ops = 0
    /\ ticks = 0
    /\ last = NoRun
    /\ speed_pc = "idle"
    /\ speed_stations = [i \in StationIds |-> NoDoc]
    /\ speed_bulk = EmptyMap
    /\ collection = <<>>
    /\ upserts = <<>>
    /\ fetch = NoFetch
    /\ tasks = <<>>
    /\ smtp_server = None
    /\ notify = NoNotify

SearchDenseOk ==
    \E radius \in DenseRadii, limit \in Limits :
        \E provider \in AreaResponses(DensePoint, radius) :
            Search(DensePoint, radius, None, limit, provider)

SearchDenseAdapterDown ==
    \E radius \in DenseRadii, limit \in Limits :
        Search(DensePoint, radius, None, limit, ProviderDown)

\* C29: in a cache-aside search, when the first local find_near query
\* returns at least MIN_STATIONS_THRESHOLD stations, the adapter is not
\* called, the store is not written and the response is that first local
\* result.
C29_EnoughLocalSkipsAdapter ==
    (last.op = "search" /\ Len(last.local) >= MIN_STATIONS_THRESHOLD) =>
        /\ ~last.adapter_called
        /\ store = last.pre
        /\ last.outcome = "HTTP 200"
        /\ last.result = last.local
        /\ last.data_source = "local_database"

\* a search has found just the threshold number of stations in the store
C29_Witness ==
    /\ last.op = "search"
    /\ Len(last.local) = MIN_STATIONS_THRESHOLD
    /\ last.result = last.local

\* ------------------------------------------------------------ change events
\* the ChangeEvents the step appended
NewEvents == SubSeq(events', Len(events) + 1, Len(events'))

\* the changes the step wrote to a stored station
WrittenChanges == {c \in last'.changed : store[c.station_id] # NoDoc}

AbsentFromFetch == {i \in Stored(last.pre) : i \notin DOMAIN last.fetched}

NotifyStart ==
    /\ notify.pc = "none"
    /\ Loaded(get_all_stations(store)) # {}
    /\ \E bulk_status \in BulkResponses(store) :
          LET stations == get_all_stations(store)
              changed == {i \in Loaded(stations) :
                             bulk_status_get(bulk_status, i, stations[i].status)
                                 # stations[i].status}
          IN notify' = [pc |-> "processing",
                        stations |-> [i \in changed |->
                                         [at |-> "update",
                                          old_status |-> stations[i].status,
                                          new_status |-> bulk_status[i]]],
                        sent |-> EmptyMap]
    /\ UNCHANGED <<collection, upserts, fetch, tasks, smtp_server, run_vars>>

\* process_station_status: await update_station_status
StationUpdate(i) ==
    /\ notify.pc = "processing"
    /\ notify.stations[i].at = "update"
    /\ store' = update_station_status(store, i, notify.stations[i].new_status, now)
    /\ notify' = [notify EXCEPT !.stations[i].at = "history"]
    /\ UNCHANGED <<historical, broadcasts, emails, events, now, ops, ticks, last,
                   speed_pc, speed_stations, speed_bulk,
                   collection, upserts, fetch, tasks, smtp_server>>

\* ... await add_historical_availability
StationHistory(i) ==
    /\ notify.pc = "processing"
    /\ notify.stations[i].at = "history"
    /\ historical' = add_historical_availability(historical, i,
                                                 notify.stations[i].new_status, now)
    /\ notify' = [notify EXCEPT !.stations[i].at = "users"]
    /\ UNCHANGED <<store, broadcasts, emails, events, now, ops, ticks, last,
                   speed_pc, speed_stations, speed_bulk,
                   collection, upserts, fetch, tasks, smtp_server>>

\* ... await find_premium_users_by_favorite_station, then the gather of the
\* station's notifications, which makes a task of each of them
StationIssue(i) ==
    LET interested_users == find_premium_users_by_favorite_station(i)
    IN /\ notify.pc = "processing"
       /\ notify.stations[i].at = "users"
       /\ notify' = [notify EXCEPT
                       !.stations[i].at =
                           IF interested_users = {} THEN "done" ELSE "notifying",
                       !.sent = [n \in DOMAIN notify.sent \cup
                                       {<<i, u>> : u \in interested_users} |->
                                    IF n \in DOMAIN notify.sent THEN notify.sent[n]
                                    ELSE "issued"]]
       /\ UNCHANGED <<collection, upserts, fetch, tasks, smtp_server, run_vars>>

\* one notification task runs: send_status_change_email returns or raises
\* what send_email raises, in both cases before its first await
NotificationRuns(i, u) ==
    /\ notify.pc = "processing"
    /\ <<i, u>> \in DOMAIN notify.sent
    /\ notify.sent[<<i, u>>] = "issued"
    /\ emails' = emails \o station_emails({u}, i, notify.stations[i].old_status,
                                          notify.stations[i].new_status)
    /\ notify' = [notify EXCEPT
                    !.sent[<<i, u>>] = IF send_email(smtp_server) = "skipped"
                                       THEN "finished" ELSE "failed"]
    /\ UNCHANGED <<store, historical, broadcasts, events, now, ops, ticks, last,
                   speed_pc, speed_stations, speed_bulk,
                   collection, upserts, fetch, tasks, smtp_server>>

\* the gather of the station's notifications is over: its tasks were all
\* made ready before the first of them ran, so all have run by then; it
\* raises the exception of a failed one
StationGather(i) ==
    LET mine == {n \in DOMAIN notify.sent : n[1] = i}
    IN /\ notify.pc = "processing"
       /\ notify.stations[i].at = "notifying"
       /\ \A n \in mine : notify.sent[n] # "issued"
       /\ notify' = [notify EXCEPT
                       !.stations[i].at =
                           IF \E n \in mine : notify.sent[n] = "failed"
                           THEN "raised" ELSE "done"]
       /\ UNCHANGED <<collection, upserts, fetch, tasks, smtp_server, run_vars>>

\* the gather over the stations returns when all of them are done: the run
\* emits its broadcast and returns
NotifyRunReturns ==
    /\ notify.pc = "processing"
    /\ \A i \in DOMAIN notify.stations : notify.stations[i].at = "done"
    /\ broadcasts' = emit_status_update(broadcasts,
                        {[station_id |-> i,
                          old_status |-> notify.stations[i].old_status,
                          new_status |-> notify.stations[i].new_status] :
                            i \in DOMAIN notify.stations})
    /\ notify' = [notify EXCEPT !.pc = "returned"]
    /\ UNCHANGED <<store, historical, emails, events, now, ops, ticks, last,
                   speed_pc, speed_stations, speed_bulk,
                   collection, upserts, fetch, tasks, smtp_server>>

\* the gather over the stations, made without return_exceptions, raises as
\* soon as one station has raised, whatever the others are at: the run
\* raises, run_until_complete stops the loop and the task calls self.retry
NotifyRunRaises ==
    /\ notify.pc = "processing"
    /\ \E i \in DOMAIN notify.stations : notify.stations[i].at = "raised"
    /\ notify' = [notify EXCEPT !.pc = "raised"]
    /\ UNCHANGED <<collection, upserts, fetch, tasks, smtp_server, run_vars>>

NextNotify ==
    \/ NotifyStart
    \/ \E i \in DOMAIN notify.stations : StationUpdate(i)
    \/ \E i \in DOMAIN notify.stations : StationHistory(i)
    \/ \E i \in DOMAIN notify.stations : StationIssue(i)
    \/ \E i \in DOMAIN notify.stations, u \in Users : NotificationRuns(i, u)
    \/ \E i \in DOMAIN notify.stations : StationGather(i)
    \/ NotifyRunReturns
    \/ NotifyRunRaises

SpecNotify == Init /\ [][NextNotify]_vars

C33_SummaryCountsWhatWasDone ==
    (last.op = "batch" /\ last.outcome = "success") =>
        LET ids == DOMAIN last.fetched
            inserted == {i \in ids : last.pre[i] = NoDoc /\ store[i] # NoDoc}
            written == {i \in ids : last.pre[i] # NoDoc /\ store[i] # last.pre[i]}
        IN /\ last.summary.new_stations = Cardinality(inserted)
           /\ last.summary.updated_stations = Cardinality(written)
           /\ last.summary.historical_records = Len(last.snapshots)

\* ------------------------------------------------- status and connectors
\* TomTomService._calculate_station_status over the statuses of the
\* connectors
_calculate_station_status(connector_statuses) ==
    IF connector_statuses = <<>> THEN "UNKNOWN"
    ELSE IF "AVAILABLE" \in Elements(connector_statuses) THEN "AVAILABLE"
    ELSE IF "OCCUPIED" \in Elements(connector_statuses) THEN "OCCUPIED"
    ELSE IF "OUT_OF_SERVICE" \in Elements(connector_statuses) THEN "OUT_OF_SERVICE"
    ELSE "UNKNOWN"

\* C34 as stated: in every stored station that has connectors, the overall
\* status equals the status the adapter's rule derives from the stored
\* connector statuses.
C34_StatusFollowsConnectors ==
    \A i \in Stored(store) :
        store[i].connectors # <<>> =>
            store[i].status = _calculate_station_status(store[i].connectors)

\* ------------------------------------------------ snapshot and stored status
\* the canonical name of a provider status: BUSY is OCCUPIED, OUT_OF_ORDER
\* and OUT_OF_SERVICE are OFFLINE
Canonical(status) ==
    CASE status = "BUSY" -> "OCCUPIED"
      [] status \in {"OUT_OF_ORDER", "OUT_OF_SERVICE"} -> "OFFLINE"
      [] OTHER -> status

\* C35 as stated: the status of every snapshot a batch sweep appends equals,
\* up to the aliases, the overall status the same run stored for the
\* station, also when that status is UNKNOWN.
C35_SnapshotHasStoredStatus ==
    [][last'.op = "batch" =>
          \A k \in 1..Len(NewSnapshots) :
              /\ store'[NewSnapshots[k].station_id] # NoDoc
              /\ NewSnapshots[k].status =
                     Canonical(store'[NewSnapshots[k].station_id].status)]_vars

\* ----------------------------------------------- refill of a stored station
\* the search made a refill
Refilled == last.op = "search" /\ last.data_source = "local_plus_tomtom"

\* C36: a cache-aside refill that finds a returned station in the store
\* changes only its status, connectors, last_updated and data_source: the
\* id and the location stay and the change counter is as it was; a station
\* inserted as new has change counter 0.
C36_RefillKeepsIdentityAndCounter ==
    Refilled =>
        \A i \in DOMAIN last.fetched :
            IF last.pre[i] # NoDoc
            THEN /\ store[i] = [last.pre[i] EXCEPT
                                  !.status = store[i].status,
                                  !.connectors = store[i].connectors,
                                  !.last_updated = store[i].last_updated,
                                  !.data_source = store[i].data_source]
                 /\ store[i].location = last.pre[i].location
                 /\ store[i].availability_status_changes_count
                        = last.pre[i].availability_status_changes_count
            ELSE /\ store[i] # NoDoc
                 /\ store[i].availability_status_changes_count = 0

\* a refill has changed the status of a stored station and inserted another
C36_Witness ==
    /\ Refilled
    /\ \E i \in DOMAIN last.fetched :
          last.pre[i] # NoDoc /\ store[i].status # last.pre[i].status
    /\ \E i \in DOMAIN last.fetched : last.pre[i] = NoDoc

Quiet == speed_pc = "idle"

\* runs one after the other
Next ==
    \/ Quiet /\ SearchOk /\ UNCHANGED aside_vars
    \/ Quiet /\ SearchAdapterDown /\ UNCHANGED aside_vars
    \/ Quiet /\ BatchOk /\ UNCHANGED aside_vars
    \/ Quiet /\ BatchAdapterDown /\ UNCHANGED aside_vars
    \/ SpeedLoad /\ UNCHANGED aside_vars
    \/ SpeedFetch /\ UNCHANGED aside_vars
    \/ SpeedProcess /\ UNCHANGED aside_vars
    \/ Quiet /\ Cleanup /\ UNCHANGED aside_vars
    \/ Quiet /\ Tick /\ UNCHANGED aside_vars

Spec == Init /\ [][Next]_vars

\* the other jobs and requests run while a speed sweep is under way
NextOverlap ==
    \/ SearchOk /\ UNCHANGED aside_vars
    \/ SearchAdapterDown /\ UNCHANGED aside_vars
    \/ BatchOk /\ UNCHANGED aside_vars
    \/ BatchAdapterDown /\ UNCHANGED aside_vars
    \/ SpeedLoad /\ UNCHANGED aside_vars
    \/ SpeedFetch /\ UNCHANGED aside_vars
    \/ SpeedProcess /\ UNCHANGED aside_vars
    \/ Cleanup /\ UNCHANGED aside_vars
    \/ Tick /\ UNCHANGED aside_vars

SpecOverlap == Init /\ [][NextOverlap]_vars

\* the store operations on their own
NextStore ==
    \/ UpdateStatusCall /\ UNCHANGED aside_vars
    \/ FindNearCall /\ UNCHANGED aside_vars
    \/ Tick /\ UNCHANGED aside_vars

SpecStore == Init /\ [][NextStore]_vars

\* the runs one after the other, beside the ledger's cleanup and expiry
NextLedger ==
    \/ Quiet /\ SearchOk /\ UNCHANGED aside_vars
    \/ Quiet /\ BatchOk /\ UNCHANGED aside_vars
    \/ SpeedLoad /\ UNCHANGED aside_vars
    \/ SpeedFetch /\ UNCHANGED aside_vars
    \/ SpeedProcess /\ UNCHANGED aside_vars
    \/ Quiet /\ CleanupHistorical /\ UNCHANGED aside_vars
    \/ Quiet /\ ExpireSnapshots /\ UNCHANGED aside_vars
    \/ Quiet /\ LedgerTick /\ UNCHANGED aside_vars

SpecLedger == Init /\ [][NextLedger]_vars

\* store calls and batch runs beside a database that fails some writes
NextFailing ==
    \/ StoreCallOk /\ UNCHANGED aside_vars
    \/ StoreCallFails /\ UNCHANGED aside_vars
    \/ BatchOk /\ UNCHANGED aside_vars
    \/ BatchWriteFails /\ UNCHANGED aside_vars

SpecFailing == Init /\ [][NextFailing]_vars

\* a batch sweep beside the steps of a speed sweep, after earlier batch runs
NextRace ==
    \/ BatchOk /\ UNCHANGED aside_vars
    \/ SpeedLoad /\ UNCHANGED aside_vars
    \/ SpeedFetch /\ UNCHANGED aside_vars
    \/ SpeedProcess /\ UNCHANGED aside_vars

SpecRace == InitRace /\ [][NextRace]_vars

\* searches over a store that holds the stations around the query point
NextDense ==
    \/ SearchDenseOk /\ UNCHANGED aside_vars
    \/ SearchDenseAdapterDown /\ UNCHANGED aside_vars
    \/ Tick /\ UNCHANGED aside_vars

SpecDense == InitDense /\ [][NextDense]_vars
====
